---------------------------- MODULE Spec2Model ----------------------------
(***************************************************************************)
(* A model of BetterWebSocket (iam4x/better-websocket): the connection     *)
(* controller of src/src/connection.ts, the facade class BetterWebSocket   *)
(* (src/unnamed/part_001) and the RingBufferQueue (src/unnamed/part_000).  *)
(*                                                                         *)
(* JavaScript is single threaded: every timer callback, transport          *)
(* notification and public call runs to completion, so each is one action. *)
(* The one place where user code runs in the middle of a handler is the    *)
(* dispatch of the close event in handleClose / handleConnectionError      *)
(* (the reconnection check follows the dispatch); `pc` records that the    *)
(* controller is inside that dispatch, where the listener may call the     *)
(* public methods before the handler resumes.                              *)
(***************************************************************************)
EXTENDS Integers, Sequences, FiniteSets, TLC

(***************************************************************************)
(* Bounds of the model.                                                    *)
(***************************************************************************)
MaxUrls == 2
MaxAttempts == 1
MaxUntracked == 1
MaxSends == 1         \* send() calls in Spec
MaxFlushSends == 3    \* send() calls in SpecFlush
MaxQueueSize == 2
MaxCount == 3         \* RingBufferQueue: largest maxCount
MaxBytes == 3         \* RingBufferQueue: largest maxBytes
MaxItemSize == 2      \* RingBufferQueue: largest item size
MaxQueueBytes == 2    \* largest maxQueueBytes a caller passes in the options
HeartbeatTicks == 2   \* options.heartbeatTimeout, in ticks of SpecHeartbeat
MaxSuperseded == 2    \* superseded sockets recorded at a time
MaxBackoff == 2       \* largest maxReconnectAttempts in SpecBackoff
MaxConserveSends == 2 \* send() calls in SpecConserve
MaxTicks == 3         \* largest heartbeatInterval and heartbeatTimeout, in
                      \* ticks of SpecSilent
TimerMax == 2147483647  \* largest delay in ms a timer can run with (2^31 - 1)
LargeFactor == 2147484  \* smallest factor with factor * 1000 > TimerMax

(***************************************************************************)
(* BetterWebSocketState, src/src/types.ts:13-18.                           *)
(***************************************************************************)
CONNECTING == 0
OPEN == 1
CLOSING == 2
CLOSED == 3

VARIABLES
  \* ---- fields of BetterWebSocket (src/unnamed/part_001:36-67)
  readyState,           \* public readyState
  url,                  \* public url, as an index into urls
  bufferedAmount,       \* public bufferedAmount
  urlsLen,              \* urls.length (urls[i] is represented by i)
  currentUrlIndex,
  options,              \* the resolved options the model uses
  socket,               \* "null", or the native socket's own ready state
  socketUrl,            \* the endpoint the native socket was created for
  messageQueue,         \* sequence of QueuedMessage [id, data, size]
  reconnectAttempts,
  reconnectTimeoutId,   \* "null" | "armed" | "stale" (handle kept, timer over)
  connectTimeoutId,
  heartbeatIntervalId,
  heartbeatTimeoutId,
  isDestroyed,
  shouldReconnect,
  \* ---- the timer service and the event loop
  untrackedConnects,    \* pending `() => connect(instance)` callbacks whose
                        \* handle is stored nowhere (connection.ts:154) or was
                        \* overwritten while pending (connection.ts:169)
  pc,                   \* "idle" | "closeCb": inside the close-event dispatch
  closeRequest,         \* reason given to the pending socket.close(), or "none"
  endpoints,            \* what each endpoint does to a connect attempt:
                        \* "accept", "fail", or "any" (either, also a throw)
  sendLimit,            \* how many send() calls the caller makes at most
  \* ---- observation (history) variables, never read by the program
  out,                  \* what the last action emitted, in order
  lastOp,               \* name of the last action
  prev,                 \* readyState and reconnectAttempts before it
  txLog,                \* ids of the user payloads handed to socket.send
  nextId,               \* number of send() calls made so far
  closeCount,           \* close events dispatched since the last connect()
  policyCount,          \* attemptReconnect calls since the last connect()
  backoffConnects,      \* connect() calls made by the backoff timer
  userClosed,           \* close() took effect on the current connection
                        \* attempt and forceReconnect() was not called since
  superseded,           \* native sockets the controller has dropped and
                        \* that have not reported their close yet (live),
                        \* and how many of them still carry its listeners
                        \* (attached); recorded only in SpecSupersede (track)
  reconnectDelay,       \* the delay in ms the backoff timer armed last runs
                        \* with (ms); recorded only in SpecBackoff (track)
  clock,                \* ticks since the response-timeout was armed (hb),
                        \* since the last inbound message or the open (rx)
                        \* and since the interval fired (iv); time passes
                        \* only in SpecHeartbeat and SpecSilent
  \* ---- a RingBufferQueue (src/unnamed/part_000:225-292), used by SpecQueue
  rb,                   \* its fields, and `spins` once push loops forever
  rbLast                \* the last operation on it and what it returned

vars == << readyState, url, bufferedAmount, urlsLen, currentUrlIndex, options,
           socket, socketUrl, messageQueue, reconnectAttempts,
           reconnectTimeoutId, connectTimeoutId, heartbeatIntervalId,
           heartbeatTimeoutId, isDestroyed, shouldReconnect,
           untrackedConnects, pc, closeRequest, endpoints, sendLimit, out,
           lastOp, prev,
           txLog, nextId, closeCount, policyCount, backoffConnects,
           userClosed, superseded, reconnectDelay, clock, rb, rbLast >>

rbVars == << rb, rbLast >>

wsVars == << readyState, url, bufferedAmount, urlsLen, currentUrlIndex,
             options, socket, socketUrl, messageQueue, reconnectAttempts,
             reconnectTimeoutId, connectTimeoutId, heartbeatIntervalId,
             heartbeatTimeoutId, isDestroyed, shouldReconnect,
             untrackedConnects, pc, closeRequest, endpoints, sendLimit, out,
             lastOp, prev, txLog, nextId, closeCount, policyCount,
             backoffConnects, userClosed, superseded, reconnectDelay,
             clock >>

(***************************************************************************)
(* The state as one record, so that each function of the source is an      *)
(* operator from state to state.                                           *)
(***************************************************************************)
Cur ==
  [ readyState |-> readyState, url |-> url, bufferedAmount |-> bufferedAmount,
    urlsLen |-> urlsLen, currentUrlIndex |-> currentUrlIndex,
    options |-> options, socket |-> socket, socketUrl |-> socketUrl,
    messageQueue |-> messageQueue, reconnectAttempts |-> reconnectAttempts,
    reconnectTimeoutId |-> reconnectTimeoutId,
    connectTimeoutId |-> connectTimeoutId,
    heartbeatIntervalId |-> heartbeatIntervalId,
    heartbeatTimeoutId |-> heartbeatTimeoutId,
    isDestroyed |-> isDestroyed, shouldReconnect |-> shouldReconnect,
    untrackedConnects |-> untrackedConnects, pc |-> pc,
    closeRequest |-> closeRequest, endpoints |-> endpoints,
    sendLimit |-> sendLimit, out |-> << >>, lastOp |-> lastOp,
    prev |-> [readyState |-> readyState,
              reconnectAttempts |-> reconnectAttempts], txLog |-> txLog, nextId |-> nextId,
    closeCount |-> closeCount, policyCount |-> policyCount,
    backoffConnects |-> backoffConnects, userClosed |-> userClosed,
    superseded |-> superseded, reconnectDelay |-> reconnectDelay,
    clock |-> clock ]

Become(s, op) ==
  /\ s.untrackedConnects <= MaxUntracked
  /\ readyState' = s.readyState
  /\ url' = s.url
  /\ bufferedAmount' = s.bufferedAmount
  /\ urlsLen' = s.urlsLen
  /\ currentUrlIndex' = s.currentUrlIndex
  /\ options' = s.options
  /\ socket' = s.socket
  /\ socketUrl' = s.socketUrl
  /\ messageQueue' = s.messageQueue
  /\ reconnectAttempts' = s.reconnectAttempts
  /\ reconnectTimeoutId' = s.reconnectTimeoutId
  /\ connectTimeoutId' = s.connectTimeoutId
  /\ heartbeatIntervalId' = s.heartbeatIntervalId
  /\ heartbeatTimeoutId' = s.heartbeatTimeoutId
  /\ isDestroyed' = s.isDestroyed
  /\ shouldReconnect' = s.shouldReconnect
  /\ untrackedConnects' = s.untrackedConnects
  /\ pc' = s.pc
  /\ closeRequest' = s.closeRequest
  /\ endpoints' = s.endpoints
  /\ sendLimit' = s.sendLimit
  /\ out' = s.out
  /\ lastOp' = op
  /\ prev' = s.prev
  /\ txLog' = s.txLog
  /\ nextId' = s.nextId
  /\ closeCount' = s.closeCount
  /\ policyCount' = s.policyCount
  /\ backoffConnects' = s.backoffConnects
  /\ userClosed' = s.userClosed
  /\ superseded' = s.superseded
  /\ reconnectDelay' = s.reconnectDelay
  /\ clock' = s.clock
  /\ UNCHANGED rbVars

(***************************************************************************)
(* Emitted items: events dispatched to the listeners, payloads handed to   *)
(* the native socket, and calls of the reconnection policy.                *)
(***************************************************************************)
Ev(t, v, r) == [t |-> t, v |-> v, r |-> r]
Emit(s, e) == [s EXCEPT !.out = Append(@, e)]
Count(seq, t) == Cardinality({i \in DOMAIN seq : seq[i].t = t})
Min(a, b) == IF a < b THEN a ELSE b

(***************************************************************************)
(* connection.ts                                                           *)
(***************************************************************************)
clearTimeouts(s) ==
  [s EXCEPT !.connectTimeoutId = "null", !.reconnectTimeoutId = "null",
            !.heartbeatIntervalId = "null", !.heartbeatTimeoutId = "null"]

\* The dropped socket, if it has not reported its close yet, goes on as a
\* superseded socket (socket.close() was called on it if it was not closing).
Supersede(s, listening) ==
  IF s.superseded.track /\ s.socket \in {"connecting", "open", "closing"}
    THEN [s.superseded EXCEPT
            !.live = Min(@ + 1, MaxSuperseded),
            !.attached = IF listening THEN Min(@ + 1, MaxSuperseded) ELSE @]
    ELSE s.superseded

\* disconnectSocket that drops the handle without removing the listeners.
disconnectSocket_KeepsListeners(s) ==
  IF s.socket # "null"
    THEN [s EXCEPT !.socket = "null", !.closeRequest = "none",
                   !.superseded = Supersede(s, TRUE)]
    ELSE s

\* The listeners are removed and the handle dropped: whatever the superseded
\* native socket does afterwards no longer reaches the controller.
disconnectSocket(s) ==
  IF s.socket # "null"
    THEN [s EXCEPT !.socket = "null", !.closeRequest = "none",
                   !.superseded = Supersede(s, FALSE)]
    ELSE s

startConnectTimeout(s) == [s EXCEPT !.connectTimeoutId = "armed"]

\* factor^attempts * 1000 > TimerMax, decided without leaving the 32-bit
\* range: factor^attempts is an integer, so the product exceeds TimerMax
\* exactly when factor^attempts exceeds TimerMax \div 1000.
RECURSIVE Pow(_, _)
Pow(b, e) == IF e = 0 THEN 1 ELSE b * Pow(b, e - 1)

RECURSIVE ExceedsTimerMax(_, _)
ExceedsTimerMax(factor, attempts) ==
  IF attempts = 0 THEN FALSE
  ELSE \/ ExceedsTimerMax(factor, attempts - 1)
       \/ Pow(factor, attempts - 1) > (TimerMax \div 1000) \div factor

\* The delay a timer created by setTimeout(cb, Math.pow(factor, attempts) *
\* 1000) runs with: a delay above TimerMax is replaced by 1 ms.
backoffDelay(factor, attempts) ==
  IF ExceedsTimerMax(factor, attempts) THEN 1
  ELSE Pow(factor, attempts) * 1000

\* setTimeout(..) assigned to reconnectTimeoutId: a timer still pending under
\* the old handle keeps running, with no handle left to cancel it.
armReconnectTimer(s, delay) ==
  [s EXCEPT !.reconnectTimeoutId = "armed",
            !.reconnectDelay.ms = IF s.reconnectDelay.track THEN delay ELSE @,
            !.untrackedConnects =
               IF s.reconnectTimeoutId = "armed" THEN @ + 1 ELSE @]

attemptReconnect(s0) ==
  LET s == [Emit(s0, Ev("policy", 0, "")) EXCEPT
              !.policyCount = Min(@ + 1, 2)]
  IN
  IF s0.isDestroyed \/ ~s0.shouldReconnect THEN s0
  ELSE IF s.currentUrlIndex < s.urlsLen - 1
    THEN [s EXCEPT !.currentUrlIndex = @ + 1,
                   !.url = s.currentUrlIndex + 1,
                   !.untrackedConnects = @ + 1]
  ELSE LET s1 == [s EXCEPT !.currentUrlIndex = 0, !.url = 0]
       IN IF s1.reconnectAttempts >= s1.options.maxReconnectAttempts
            THEN [s1 EXCEPT !.shouldReconnect = FALSE]
            ELSE armReconnectTimer(
                   [s1 EXCEPT !.reconnectAttempts = @ + 1],
                   backoffDelay(s1.options.reconnectBackoffFactor,
                                s1.reconnectAttempts))

\* handleClose / handleConnectionError after the close event was dispatched.
afterCloseDispatch(s) ==
  IF s.shouldReconnect /\ ~s.isDestroyed THEN attemptReconnect(s) ELSE s

\* handleClose / handleConnectionError up to and including the dispatch.  At
\* top level the listener runs next (pc = "closeCb") and the handler resumes
\* in ReturnFromClose; a dispatch nested in a listener's own call, or made
\* by the constructor (no listener can be registered yet), runs through.
dispatchClose(s, code, reason) ==
  LET s1 == [Emit(s, Ev("close", code, reason)) EXCEPT
               !.closeCount = Min(@ + 1, 2)]
  IN IF s.pc = "idle" THEN [s1 EXCEPT !.pc = "closeCb"]
     ELSE afterCloseDispatch(s1)

\* handleConnectionError that does not set readyState.
handleConnectionError_KeepsState(s, message) ==
  dispatchClose(s, 1006, message)

handleConnectionError(s, message) ==
  dispatchClose([s EXCEPT !.readyState = CLOSED], 1006, message)

handleClose(s, code, reason) ==
  dispatchClose([clearTimeouts(s) EXCEPT !.readyState = CLOSED], code, reason)

\* socket.close(code, reason) on the native socket: a socket that is
\* connecting or open starts closing (a connecting one is aborted, its close
\* event carries 1006); on a closing or closed socket the call does nothing.
nativeClose(s, reason) ==
  CASE s.socket = "connecting" ->
         [s EXCEPT !.socket = "closing", !.closeRequest = "abort"]
    [] s.socket = "open" ->
         [s EXCEPT !.socket = "closing", !.closeRequest = reason]
    [] OTHER -> s

\* `throws`: new WebSocket(url) raises synchronously.
connect(s, throws) ==
  IF s.isDestroyed THEN s
  ELSE LET s1 == clearTimeouts([s EXCEPT !.readyState = CONNECTING,
                                         !.closeCount = 0, !.policyCount = 0,
                                         !.userClosed = FALSE])
           s2 == [s1 EXCEPT !.url = s1.currentUrlIndex]
           s3 == disconnectSocket(s2)
       IN IF throws
            THEN handleConnectionError(s3, "construct")
            ELSE startConnectTimeout(
                   [s3 EXCEPT !.socket = "connecting",
                              !.socketUrl = s3.currentUrlIndex])

sendDirectly(s, msg) ==
  IF s.socket # "null" /\ s.readyState = OPEN
    THEN [Emit(s, Ev("tx", msg.id, msg.data)) EXCEPT
            !.txLog = IF msg.id > 0 THEN Append(@, msg.id) ELSE @]
    ELSE s

RECURSIVE SumSizes(_)
SumSizes(q) == IF q = << >> THEN 0 ELSE Head(q).size + SumSizes(Tail(q))

updateBufferedAmount(s) ==
  [s EXCEPT !.bufferedAmount = SumSizes(s.messageQueue)]

\* A flush that takes the newest queued message first.
RECURSIVE flushLoop_Lifo(_)
flushLoop_Lifo(s) ==
  IF Len(s.messageQueue) > 0 /\ s.readyState = OPEN
    THEN flushLoop_Lifo(sendDirectly(
           [s EXCEPT !.messageQueue = SubSeq(@, 1, Len(@) - 1)],
           s.messageQueue[Len(s.messageQueue)]))
    ELSE s

RECURSIVE flushLoop(_)
flushLoop(s) ==
  IF Len(s.messageQueue) > 0 /\ s.readyState = OPEN
    THEN flushLoop(sendDirectly(
                     [s EXCEPT !.messageQueue = Tail(@)], Head(s.messageQueue)))
    ELSE s

\* A flush that empties the queue without sending.
flushMessageQueue_Discards(s) ==
  updateBufferedAmount([s EXCEPT !.messageQueue = << >>])

flushMessageQueue(s) == updateBufferedAmount(flushLoop(s))

startHeartbeat(s) ==
  [s EXCEPT !.heartbeatIntervalId = "armed", !.clock.iv = 0]

\* The pending timer, if any, is cancelled and a new one started.
setHeartbeatTimeout(s) ==
  IF ~s.options.enableHeartbeat THEN s
  ELSE [s EXCEPT !.heartbeatTimeoutId = "armed", !.clock.hb = 0]

resetHeartbeatTimeout(s) ==
  IF s.options.enableHeartbeat THEN setHeartbeatTimeout(s)
  ELSE [s EXCEPT !.heartbeatTimeoutId = IF @ = "armed" THEN "stale" ELSE @]

\* handleOpen that forgets to reset the reconnect counter.
handleOpen_KeepsAttempts(s) ==
  LET s1 == [clearTimeouts(s) EXCEPT !.readyState = OPEN,
                                     !.backoffConnects = 0]
      s2 == flushMessageQueue(s1)
      s3 == IF s2.options.enableHeartbeat THEN startHeartbeat(s2) ELSE s2
  IN Emit(s3, Ev("open", 0, ""))

\* handleOpen that leaves the timers running.
handleOpen_KeepsTimers(s) ==
  LET s1 == [s EXCEPT !.readyState = OPEN,
                      !.reconnectAttempts = 0,
                      !.backoffConnects = 0]
      s2 == flushMessageQueue(s1)
      s3 == IF s2.options.enableHeartbeat THEN startHeartbeat(s2) ELSE s2
  IN Emit(s3, Ev("open", 0, ""))

\* handleOpen that starts the heartbeat whether or not it is enabled.
handleOpen_AlwaysHeartbeat(s) ==
  LET s1 == [clearTimeouts(s) EXCEPT !.readyState = OPEN,
                                     !.reconnectAttempts = 0,
                                     !.backoffConnects = 0]
      s2 == flushMessageQueue(s1)
  IN Emit(startHeartbeat(s2), Ev("open", 0, ""))

\* handleOpen that does not flush the queue.
handleOpen_NoFlush(s) ==
  LET s1 == [clearTimeouts(s) EXCEPT !.readyState = OPEN,
                                     !.reconnectAttempts = 0,
                                     !.backoffConnects = 0]
      s3 == IF s1.options.enableHeartbeat THEN startHeartbeat(s1) ELSE s1
  IN Emit(s3, Ev("open", 0, ""))

handleOpen(s) ==
  LET s1 == [clearTimeouts(s) EXCEPT !.readyState = OPEN,
                                     !.reconnectAttempts = 0,
                                     !.backoffConnects = 0]
      s2 == flushMessageQueue(s1)
      s3 == IF s2.options.enableHeartbeat THEN startHeartbeat(s2) ELSE s2
  IN Emit(s3, Ev("open", 0, ""))

\* handleMessage that does not re-arm the response-timeout.
handleMessage_NoRearm(s) == Emit(s, Ev("message", 0, ""))

handleMessage(s) ==
  LET s1 == IF s.options.enableHeartbeat THEN resetHeartbeatTimeout(s) ELSE s
  IN Emit(s1, Ev("message", 0, ""))

(***************************************************************************)
(* BetterWebSocket (src/unnamed/part_001)                                  *)
(***************************************************************************)
\* Payloads: text of one-byte characters, text of three-byte characters,
\* binary data; `units` is the character count or the byte length.
Payloads == { [kind |-> "ascii", units |-> 1],
              [kind |-> "wide", units |-> 1],
              [kind |-> "binary", units |-> 2] }

calculateDataSize(data) ==
  CASE data.kind = "ascii" -> data.units
    [] data.kind = "wide" -> 3 * data.units
    [] data.kind = "binary" -> data.units
    [] OTHER -> 0

HeartbeatMessage == [kind |-> "ascii", units |-> 4]

\* Array.prototype.shift on the plain array used as messageQueue.
ArrayShift(q) == IF q = << >> THEN q ELSE Tail(q)

\* send that queues the payload also while OPEN.
send_QueuesWhileOpen(s, id, data) ==
  IF s.isDestroyed THEN s
  ELSE LET size == calculateDataSize(data)
           q1 == IF Len(s.messageQueue) >= s.options.maxQueueSize
                   THEN ArrayShift(s.messageQueue) ELSE s.messageQueue
           q2 == Append(q1, [id |-> id, data |-> data.kind, size |-> size])
       IN updateBufferedAmount([s EXCEPT !.messageQueue = q2])

\* send without the isDestroyed check.
send_NoDestroyGuard(s, id, data) ==
  IF s.readyState = OPEN
    THEN sendDirectly(s, [id |-> id, data |-> data.kind, size |-> 0])
  ELSE LET size == calculateDataSize(data)
           q1 == IF Len(s.messageQueue) >= s.options.maxQueueSize
                   THEN ArrayShift(s.messageQueue) ELSE s.messageQueue
           q2 == Append(q1, [id |-> id, data |-> data.kind, size |-> size])
       IN updateBufferedAmount([s EXCEPT !.messageQueue = q2])

send(s, id, data) ==
  IF s.isDestroyed THEN s
  ELSE IF s.readyState = OPEN
    THEN sendDirectly(s, [id |-> id, data |-> data.kind, size |-> 0])
  ELSE LET size == calculateDataSize(data)
           q1 == IF Len(s.messageQueue) >= s.options.maxQueueSize
                   THEN ArrayShift(s.messageQueue) ELSE s.messageQueue
           q2 == Append(q1, [id |-> id, data |-> data.kind, size |-> size])
       IN updateBufferedAmount([s EXCEPT !.messageQueue = q2])

\* The branch for a missing socket (part_001:230-245) needs readyState #
\* CLOSED with socket = null, which no path produces; it is kept as the
\* state change it makes (its deferred dispatch touches no state).
closeInternal(s, reason) ==
  IF s.readyState = CLOSED THEN s
  ELSE LET s1 == clearTimeouts([s EXCEPT !.readyState = CLOSING])
       IN IF s1.socket # "null"
            THEN nativeClose(s1, reason)
            ELSE [s1 EXCEPT !.readyState = CLOSED]

\* close() that leaves auto-reconnect enabled.
close_KeepsReconnect(s, reason) ==
  IF s.readyState = CLOSED \/ s.readyState = CLOSING THEN s
  ELSE closeInternal([s EXCEPT !.userClosed = (reason = "user")], reason)

\* close() without the CLOSING / CLOSED early return.
close_NoGuard(s, reason) ==
  closeInternal([s EXCEPT !.shouldReconnect = FALSE,
                          !.userClosed = (reason = "user")], reason)

close(s, reason) ==
  IF s.readyState = CLOSED \/ s.readyState = CLOSING THEN s
  ELSE closeInternal([s EXCEPT !.shouldReconnect = FALSE,
                               !.userClosed = (reason = "user")], reason)

\* destroy() that cancels no timer.
destroy_KeepsTimers(s) ==
  IF s.isDestroyed THEN s
  ELSE LET s1 == [s EXCEPT !.isDestroyed = TRUE, !.shouldReconnect = FALSE]
           s2 == [s1 EXCEPT !.messageQueue = << >>, !.bufferedAmount = 0]
           s3 == disconnectSocket(s2)
       IN IF s3.readyState # CLOSED THEN [s3 EXCEPT !.readyState = CLOSED]
          ELSE s3

\* destroy that does not drop the queue.
destroy_KeepsQueue(s) ==
  IF s.isDestroyed THEN s
  ELSE LET s1 == clearTimeouts([s EXCEPT !.isDestroyed = TRUE,
                                         !.shouldReconnect = FALSE])
           s3 == disconnectSocket(s1)
       IN IF s3.readyState # CLOSED THEN [s3 EXCEPT !.readyState = CLOSED]
          ELSE s3

destroy(s) ==
  IF s.isDestroyed THEN s
  ELSE LET s1 == clearTimeouts([s EXCEPT !.isDestroyed = TRUE,
                                         !.shouldReconnect = FALSE])
           s2 == [s1 EXCEPT !.messageQueue = << >>, !.bufferedAmount = 0]
           s3 == disconnectSocket(s2)
       IN IF s3.readyState # CLOSED THEN [s3 EXCEPT !.readyState = CLOSED]
          ELSE s3

\* clearMessageQueue that leaves bufferedAmount as it was.
clearMessageQueue_KeepsAmount(s) == [s EXCEPT !.messageQueue = << >>]

clearMessageQueue(s) ==
  updateBufferedAmount([s EXCEPT !.messageQueue = << >>])

getQueuedMessageCount(s) == Len(s.messageQueue)
getCurrentUrl(s) == s.currentUrlIndex
getReconnectAttempts(s) == s.reconnectAttempts

\* forceReconnect that does not re-enable reconnection.
forceReconnect_NoEnable(s, throws) ==
  IF s.isDestroyed THEN s
  ELSE IF s.socket # "null" /\ s.readyState = OPEN
         THEN closeInternal(s, "Force reconnect")
       ELSE IF s.readyState = CLOSED THEN connect(s, throws)
       ELSE s

forceReconnect(s, throws) ==
  IF s.isDestroyed THEN s
  ELSE LET s1 == [s EXCEPT !.shouldReconnect = TRUE, !.userClosed = FALSE]
       IN IF s1.socket # "null" /\ s1.readyState = OPEN
            THEN closeInternal(s1, "Force reconnect")
          ELSE IF s1.readyState = CLOSED THEN connect(s1, throws)
          ELSE s1

(***************************************************************************)
(* RingBufferQueue (src/unnamed/part_000:225-292).  An item is a record    *)
(* with a size; an empty slot of the backing array holds Undefined.        *)
(***************************************************************************)
Undefined == [tag |-> "undefined", size |-> 0]

Items == [tag : {"a", "b"}, size : 0..MaxItemSize]

RingBufferQueue(maxCount, maxBytes) ==
  [ buffer |-> [i \in 0..(maxCount - 1) |-> Undefined],
    head |-> 0, tail |-> 0, count |-> 0, totalBytes |-> 0,
    maxCount |-> maxCount, maxBytes |-> maxBytes, spins |-> FALSE ]

rbLength(q) == q.count
rbByteSize(q) == q.totalBytes

\* shift that removes the head item without advancing head.
rbShift_KeepsHead(q) ==
  IF q.count = 0 THEN q
  ELSE LET item == q.buffer[q.head]
       IN [q EXCEPT !.buffer[q.head] = Undefined,
                    !.count = @ - 1,
                    !.totalBytes = IF item # Undefined THEN @ - item.size
                                   ELSE @]

\* shift(): the queue after the call (the returned item is rbShifted).
rbShift(q) ==
  IF q.count = 0 THEN q
  ELSE LET item == q.buffer[q.head]
       IN [q EXCEPT !.buffer[q.head] = Undefined,
                    !.head = (q.head + 1) % q.maxCount,
                    !.count = @ - 1,
                    !.totalBytes = IF item # Undefined THEN @ - item.size
                                   ELSE @]

rbShifted(q) == IF q.count = 0 THEN Undefined ELSE q.buffer[q.head]

\* The eviction loop of push.  shift() on an empty queue changes nothing, so
\* a loop condition that still holds at count = 0 holds forever.
RECURSIVE rbEvict(_, _)
rbEvict(q, item) ==
  IF q.count >= q.maxCount \/ q.totalBytes + item.size > q.maxBytes
    THEN IF q.count = 0 THEN [q EXCEPT !.spins = TRUE]
         ELSE rbEvict(rbShift(q), item)
    ELSE q

\* push that appends without adding the item's size to totalBytes.
rbPush_NoByteCount(q, item) ==
  IF item.size > q.maxBytes THEN q
  ELSE LET q1 == rbEvict(q, item)
       IN IF q1.spins THEN q1
          ELSE [q1 EXCEPT !.buffer[q1.tail] = item,
                          !.tail = (q1.tail + 1) % q1.maxCount,
                          !.count = IF @ < q1.maxCount THEN @ + 1 ELSE @]

\* push(item): the queue after the call; rbPushThrows tells whether it raised.
rbPush(q, item) ==
  IF item.size > q.maxBytes THEN q
  ELSE LET q1 == rbEvict(q, item)
       IN IF q1.spins THEN q1
          ELSE [q1 EXCEPT !.buffer[q1.tail] = item,
                          !.tail = (q1.tail + 1) % q1.maxCount,
                          !.count = IF @ < q1.maxCount THEN @ + 1 ELSE @,
                          !.totalBytes = @ + item.size]

rbPushThrows(q, item) == item.size > q.maxBytes

rbClear(q) == RingBufferQueue(q.maxCount, q.maxBytes)

RECURSIVE rbValuesFrom(_, _)
rbValuesFrom(q, i) ==
  IF i >= q.count THEN << >>
  ELSE LET item == q.buffer[(q.head + i) % q.maxCount]
       IN (IF item # Undefined THEN << item >> ELSE << >>)
            \o rbValuesFrom(q, i + 1)

rbValues(q) == rbValuesFrom(q, 0)

(***************************************************************************)
(* Construction (part_001:75-101): defaults, then connect().               *)
(***************************************************************************)
Constructed(n, opts, eps, limit) ==
  [ readyState |-> CONNECTING, url |-> 0, bufferedAmount |-> 0,
    urlsLen |-> n, currentUrlIndex |-> 0, options |-> opts,
    socket |-> "null", socketUrl |-> 0, messageQueue |-> << >>,
    reconnectAttempts |-> 0, reconnectTimeoutId |-> "null",
    connectTimeoutId |-> "null", heartbeatIntervalId |-> "null",
    heartbeatTimeoutId |-> "null", isDestroyed |-> FALSE,
    shouldReconnect |-> TRUE, untrackedConnects |-> 0, pc |-> "construct",
    closeRequest |-> "none", endpoints |-> eps, sendLimit |-> limit,
    out |-> << >>, lastOp |-> "new",
    prev |-> [readyState |-> CONNECTING, reconnectAttempts |-> 0],
    txLog |-> << >>,
    nextId |-> 0, closeCount |-> 0, policyCount |-> 0, backoffConnects |-> 0,
    userClosed |-> FALSE,
    superseded |-> [track |-> FALSE, live |-> 0, attached |-> 0],
    reconnectDelay |-> [track |-> FALSE, ms |-> 0],
    clock |-> [hb |-> 0, rx |-> 0, iv |-> 0] ]

ThrowChoices(s) ==
  IF s.endpoints[s.currentUrlIndex] = "any" THEN BOOLEAN ELSE {FALSE}

Start(s) ==
  /\ readyState = s.readyState
  /\ url = s.url
  /\ bufferedAmount = s.bufferedAmount
  /\ urlsLen = s.urlsLen
  /\ currentUrlIndex = s.currentUrlIndex
  /\ options = s.options
  /\ socket = s.socket
  /\ socketUrl = s.socketUrl
  /\ messageQueue = s.messageQueue
  /\ reconnectAttempts = s.reconnectAttempts
  /\ reconnectTimeoutId = s.reconnectTimeoutId
  /\ connectTimeoutId = s.connectTimeoutId
  /\ heartbeatIntervalId = s.heartbeatIntervalId
  /\ heartbeatTimeoutId = s.heartbeatTimeoutId
  /\ isDestroyed = s.isDestroyed
  /\ shouldReconnect = s.shouldReconnect
  /\ untrackedConnects = s.untrackedConnects
  /\ pc = "idle"
  /\ closeRequest = s.closeRequest
  /\ endpoints = s.endpoints
  /\ sendLimit = s.sendLimit
  /\ out = s.out
  /\ lastOp = s.lastOp
  /\ prev = s.prev
  /\ txLog = s.txLog
  /\ nextId = s.nextId
  /\ closeCount = s.closeCount
  /\ policyCount = s.policyCount
  /\ backoffConnects = s.backoffConnects
  /\ userClosed = s.userClosed
  /\ superseded = s.superseded
  /\ reconnectDelay = s.reconnectDelay
  /\ clock = s.clock
  /\ rb = RingBufferQueue(0, 0)
  /\ rbLast = [op |-> "new", item |-> Undefined]

OptionSets ==
  [ maxReconnectAttempts : 0..MaxAttempts, enableHeartbeat : BOOLEAN,
    maxQueueSize : {MaxQueueSize}, reconnectBackoffFactor : {2},
    heartbeatInterval : {HeartbeatTicks},
    heartbeatTimeout : {HeartbeatTicks} ]

Init ==
  \E n \in 1..MaxUrls, opts \in OptionSets :
    LET s0 == Constructed(n, opts, [i \in 0..(n - 1) |-> "any"], MaxSends)
    IN \E throws \in ThrowChoices(s0) : Start(connect(s0, throws))

(***************************************************************************)
(* Public calls.  They may come between any two callbacks and from inside  *)
(* a close listener.                                                       *)
(***************************************************************************)
Send ==
  /\ nextId < sendLimit
  /\ \E data \in Payloads :
       Become(send([Cur EXCEPT !.nextId = @ + 1], nextId + 1, data), "send")

\* The same call with a one-character text payload: what the caller of the
\* lifecycle specification sends (the payload kinds are SpecFlush's subject).
SendText ==
  /\ nextId < sendLimit
  /\ Become(send([Cur EXCEPT !.nextId = @ + 1], nextId + 1,
                 [kind |-> "ascii", units |-> 1]), "send")

Close == Become(close(Cur, "user"), "close")

Destroy == Become(destroy(Cur), "destroy")

ForceReconnect ==
  \E throws \in ThrowChoices(Cur) :
    Become(forceReconnect(Cur, throws), "forceReconnect")

ClearMessageQueue == Become(clearMessageQueue(Cur), "clearMessageQueue")

\* The close listener returns; handleClose / handleConnectionError resume.
ReturnFromClose ==
  /\ pc = "closeCb"
  /\ Become([afterCloseDispatch(Cur) EXCEPT !.pc = "idle"], "returnFromClose")

(***************************************************************************)
(* Timer callbacks.                                                        *)
(***************************************************************************)
\* connection.ts:176-181
ConnectTimeoutFire ==
  /\ pc = "idle"
  /\ connectTimeoutId = "armed"
  /\ socket = "connecting" => endpoints[socketUrl] # "accept"
  /\ LET s == [Cur EXCEPT !.connectTimeoutId = "stale"]
     IN IF s.socket # "null" /\ s.readyState = CONNECTING
          THEN Become(handleConnectionError(nativeClose(s, "abort"),
                                            "Connection timeout"),
                      "connectTimeout")
          ELSE Become(s, "connectTimeout")

\* connection.ts:169-171
ReconnectTimerFire ==
  /\ pc = "idle"
  /\ reconnectTimeoutId = "armed"
  /\ \E throws \in ThrowChoices(Cur) :
       Become(connect([Cur EXCEPT !.reconnectTimeoutId = "stale",
                                  !.backoffConnects = Min(@ + 1, MaxAttempts + 1)],
                      throws), "reconnectTimer")

\* connection.ts:154, and timers whose handle was overwritten
UntrackedConnectFire ==
  /\ pc = "idle"
  /\ untrackedConnects > 0
  /\ \E throws \in ThrowChoices(Cur) :
       Become(connect([Cur EXCEPT !.untrackedConnects = @ - 1], throws),
              "untrackedConnect")

\* connection.ts:186-191 (setInterval: stays armed)
HeartbeatIntervalFire ==
  /\ pc = "idle"
  /\ heartbeatIntervalId = "armed"
  /\ LET s == [Cur EXCEPT !.clock.iv = 0]
     IN IF readyState = OPEN /\ ~isDestroyed
          THEN Become(setHeartbeatTimeout(send(s, 0, HeartbeatMessage)),
                      "heartbeatInterval")
          ELSE Become(s, "heartbeatInterval")

\* connection.ts:204-208
HeartbeatTimeoutFire ==
  /\ pc = "idle"
  /\ heartbeatTimeoutId = "armed"
  /\ LET s == [Cur EXCEPT !.heartbeatTimeoutId = "stale"]
     IN IF s.readyState = OPEN /\ ~s.isDestroyed
          THEN Become(close(s, "Heartbeat response timeout"),
                      "heartbeatTimeout")
          ELSE Become(s, "heartbeatTimeout")

(***************************************************************************)
(* Notifications of the native socket (listeners of connection.ts:48-51).  *)
(***************************************************************************)
SocketOpen ==
  /\ pc = "idle"
  /\ socket = "connecting"
  /\ endpoints[socketUrl] # "fail"
  /\ Become(handleOpen([Cur EXCEPT !.socket = "open", !.clock.rx = 0]),
            "socketOpen")

\* The close event of the native socket: 1006 for a connection that failed,
\* dropped or was aborted, the requested code and reason for a close
\* handshake started by socket.close(code, reason).
SocketClose ==
  /\ pc = "idle"
  /\ socket \in {"connecting", "open", "closing"}
  /\ socket = "connecting" => endpoints[socketUrl] # "accept"
  /\ LET s == [Cur EXCEPT !.socket = "closed", !.closeRequest = "none"]
     IN IF closeRequest \in {"none", "abort"}
          THEN Become(handleClose(s, 1006, ""), "socketClose")
          ELSE Become(handleClose(s, 1000, closeRequest), "socketClose")

SocketMessage ==
  /\ pc = "idle"
  /\ socket \in {"open", "closing"}
  /\ closeRequest # "abort"
  /\ Become(handleMessage([Cur EXCEPT !.clock.rx = 0]), "socketMessage")

Next ==
  \/ SendText
  \/ Close
  \/ Destroy
  \/ ForceReconnect
  \/ ClearMessageQueue
  \/ ReturnFromClose
  \/ ConnectTimeoutFire
  \/ ReconnectTimerFire
  \/ UntrackedConnectFire
  \/ HeartbeatIntervalFire
  \/ HeartbeatTimeoutFire
  \/ SocketOpen
  \/ SocketClose
  \/ SocketMessage

Spec == Init /\ [][Next]_vars

TypeOK ==
  /\ readyState \in {CONNECTING, OPEN, CLOSING, CLOSED}
  /\ socket \in {"null", "connecting", "open", "closing", "closed"}
  /\ pc \in {"idle", "closeCb"}
  /\ (socket = "null" => readyState = CLOSED)
  /\ superseded.live \in 0..MaxSuperseded
  /\ superseded.attached \in 0..superseded.live

(***************************************************************************)
(* Scenario specifications: no public call is made, the endpoints behave   *)
(* as fixed in the initial state and construction does not throw.          *)
(***************************************************************************)
\* Every connect attempt fails, by a transport close or by connect timeout.
InitFailing ==
  \E n \in 1..MaxUrls, opts \in OptionSets :
    Start(connect(Constructed(n, opts, [i \in 0..(n - 1) |-> "fail"], 0),
                  FALSE))

NextFailing ==
  \/ ReturnFromClose
  \/ ConnectTimeoutFire
  \/ ReconnectTimerFire
  \/ UntrackedConnectFire
  \/ SocketClose

SpecFailing == InitFailing /\ [][NextFailing]_vars

\* Endpoints 0..k-1 fail, endpoint k accepts (and no connection is lost
\* once it is open).
GoodUrl == CHOOSE i \in DOMAIN endpoints : endpoints[i] = "accept"

InitFallback ==
  \E n \in 1..MaxUrls, opts \in OptionSets :
    \E k \in 0..(n - 1) :
      Start(connect(Constructed(n, opts,
                                [i \in 0..(n - 1) |->
                                   IF i = k THEN "accept" ELSE "fail"], 0),
                    FALSE))

SocketRefuse == socket # "open" /\ SocketClose

NextFallback ==
  \/ ReturnFromClose
  \/ ConnectTimeoutFire
  \/ ReconnectTimerFire
  \/ UntrackedConnectFire
  \/ SocketOpen
  \/ SocketRefuse

SpecFallback == InitFallback /\ [][NextFallback]_vars

(***************************************************************************)
(* The RingBufferQueue on its own: any sequence of push, shift and clear.  *)
(***************************************************************************)
DefaultOptions ==
  [maxReconnectAttempts |-> 0, enableHeartbeat |-> FALSE,
   maxQueueSize |-> MaxQueueSize, reconnectBackoffFactor |-> 2,
   heartbeatInterval |-> HeartbeatTicks, heartbeatTimeout |-> HeartbeatTicks]

InitQueue ==
  /\ \E maxCount \in 0..MaxCount, maxBytes \in 0..MaxBytes :
       rb = RingBufferQueue(maxCount, maxBytes)
  /\ rbLast = [op |-> "new", item |-> Undefined]
  /\ readyState = CLOSED /\ url = 0 /\ bufferedAmount = 0 /\ urlsLen = 1
  /\ currentUrlIndex = 0 /\ options = DefaultOptions /\ socket = "null"
  /\ socketUrl = 0 /\ messageQueue = << >> /\ reconnectAttempts = 0
  /\ reconnectTimeoutId = "null" /\ connectTimeoutId = "null"
  /\ heartbeatIntervalId = "null" /\ heartbeatTimeoutId = "null"
  /\ isDestroyed = TRUE /\ shouldReconnect = FALSE
  /\ untrackedConnects = 0 /\ pc = "idle" /\ closeRequest = "none"
  /\ endpoints = [i \in {0} |-> "any"] /\ sendLimit = 0 /\ out = << >>
  /\ lastOp = "new"
  /\ prev = [readyState |-> CLOSED, reconnectAttempts |-> 0]
  /\ txLog = << >> /\ nextId = 0 /\ closeCount = 0 /\ policyCount = 0
  /\ backoffConnects = 0 /\ userClosed = FALSE
  /\ superseded = [track |-> FALSE, live |-> 0, attached |-> 0]
  /\ reconnectDelay = [track |-> FALSE, ms |-> 0]
  /\ clock = [hb |-> 0, rx |-> 0, iv |-> 0]

RbPush ==
  /\ ~rb.spins
  /\ \E item \in Items :
       /\ rb' = rbPush(rb, item)
       /\ rbLast' = [op |-> IF rbPushThrows(rb, item) THEN "pushThrew"
                            ELSE "push",
                     item |-> item]
  /\ UNCHANGED wsVars

RbShift ==
  /\ ~rb.spins
  /\ rb' = rbShift(rb)
  /\ rbLast' = [op |-> "shift", item |-> rbShifted(rb)]
  /\ UNCHANGED wsVars

RbClear ==
  /\ ~rb.spins
  /\ rb' = rbClear(rb)
  /\ rbLast' = [op |-> "clear", item |-> Undefined]
  /\ UNCHANGED wsVars

NextQueue == RbPush \/ RbShift \/ RbClear

SpecQueue == InitQueue /\ [][NextQueue]_vars

(***************************************************************************)
(* The message path on its own: one endpoint that accepts, connections     *)
(* that may drop, a caller that sends, closes and forces reconnects.       *)
(***************************************************************************)
InitFlush ==
  \E q \in 0..MaxQueueSize :
    Start(connect(Constructed(1, [DefaultOptions EXCEPT
                                    !.maxReconnectAttempts = 1,
                                    !.maxQueueSize = q],
                              [i \in {0} |-> "accept"], MaxFlushSends),
                  FALSE))

NextFlush ==
  \/ Send
  \/ Close
  \/ ForceReconnect
  \/ ClearMessageQueue
  \/ Destroy
  \/ ReturnFromClose
  \/ ReconnectTimerFire
  \/ SocketOpen
  \/ SocketClose

SpecFlush == InitFlush /\ [][NextFlush]_vars

(***************************************************************************)
(* Heartbeat with time: an endpoint that accepts and, while the connection *)
(* is OPEN, lets less than heartbeatTimeout pass between two inbound       *)
(* messages (and between the open and the first one).  A tick is one unit  *)
(* of time; the response-timeout fires HeartbeatTicks ticks after it was   *)
(* armed, and time does not pass beyond a timer that is due.               *)
(***************************************************************************)
InitHeartbeat ==
  \E a \in 0..MaxAttempts :
    Start(connect(Constructed(1, [DefaultOptions EXCEPT
                                    !.maxReconnectAttempts = a,
                                    !.enableHeartbeat = TRUE],
                              [i \in {0} |-> "accept"], MaxSends),
                  FALSE))

Tick ==
  /\ pc = "idle"
  /\ heartbeatTimeoutId = "armed" => clock.hb < HeartbeatTicks
  /\ readyState = OPEN => clock.rx + 1 < HeartbeatTicks
  /\ Become([Cur EXCEPT
               !.clock = [hb |-> IF heartbeatTimeoutId = "armed"
                                   THEN @.hb + 1 ELSE 0,
                          rx |-> IF readyState = OPEN
                                   THEN @.rx + 1 ELSE 0,
                          iv |-> 0]], "tick")

\* connection.ts:204-208, heartbeatTimeout after setTimeout
HeartbeatTimeoutDue == clock.hb = HeartbeatTicks /\ HeartbeatTimeoutFire

NextHeartbeat ==
  \/ SendText
  \/ Close
  \/ ForceReconnect
  \/ ReturnFromClose
  \/ ReconnectTimerFire
  \/ SocketOpen
  \/ SocketClose
  \/ SocketMessage
  \/ HeartbeatIntervalFire
  \/ HeartbeatTimeoutDue
  \/ Tick

SpecHeartbeat == InitHeartbeat /\ [][NextHeartbeat]_vars

(***************************************************************************)
(* A silent peer: heartbeat is enabled, the endpoint accepts and never     *)
(* sends a message.  The interval and the response-timeout run against the *)
(* clock: time does not pass a timer that is due, and two timers due at    *)
(* the same instant fire in either order.  clock.rx counts the ticks since *)
(* the open.                                                               *)
(***************************************************************************)
InitSilent ==
  \E a \in 0..MaxAttempts, i \in 1..MaxTicks, t \in 1..MaxTicks :
    Start(connect(Constructed(1, [DefaultOptions EXCEPT
                                    !.maxReconnectAttempts = a,
                                    !.enableHeartbeat = TRUE,
                                    !.heartbeatInterval = i,
                                    !.heartbeatTimeout = t],
                              [i0 \in {0} |-> "accept"], 0),
                  FALSE))

TickSilent ==
  /\ pc = "idle"
  /\ heartbeatIntervalId = "armed" => clock.iv < options.heartbeatInterval
  /\ heartbeatTimeoutId = "armed" => clock.hb < options.heartbeatTimeout
  /\ readyState = OPEN
  /\ clock.rx <= options.heartbeatInterval + options.heartbeatTimeout
  /\ Become([Cur EXCEPT
               !.clock = [hb |-> IF heartbeatTimeoutId = "armed"
                                   THEN @.hb + 1 ELSE 0,
                          rx |-> @.rx + 1,
                          iv |-> IF heartbeatIntervalId = "armed"
                                   THEN @.iv + 1 ELSE 0]], "tick")

\* connection.ts:186-191, heartbeatInterval after the last firing
HeartbeatIntervalElapsed ==
  clock.iv = options.heartbeatInterval /\ HeartbeatIntervalFire

\* connection.ts:204-208, heartbeatTimeout after setTimeout
HeartbeatTimeoutElapsed ==
  clock.hb = options.heartbeatTimeout /\ HeartbeatTimeoutFire

NextSilent ==
  \/ ReturnFromClose
  \/ SocketOpen
  \/ SocketClose
  \/ ReconnectTimerFire
  \/ HeartbeatIntervalElapsed
  \/ HeartbeatTimeoutElapsed
  \/ TickSilent

SpecSilent == InitSilent /\ [][NextSilent]_vars

\* The same with a peer that sends messages whenever it likes.
NextPeer ==
  \/ NextSilent
  \/ SocketMessage

SpecPeer == InitSilent /\ [][NextPeer]_vars

(***************************************************************************)
(* Message traffic over the whole lifecycle: several endpoints that behave *)
(* in any way, a queue of one message, every public call and every timer   *)
(* (heartbeat is off).                                                     *)
(***************************************************************************)
InitConserve ==
  \E n \in 1..MaxUrls :
    Start(connect(Constructed(n, [DefaultOptions EXCEPT
                                    !.maxReconnectAttempts = 1,
                                    !.maxQueueSize = 1],
                              [i \in 0..(n - 1) |-> "any"], MaxConserveSends),
                  FALSE))

NextConserve ==
  \/ SendText
  \/ Close
  \/ Destroy
  \/ ForceReconnect
  \/ ClearMessageQueue
  \/ ReturnFromClose
  \/ ConnectTimeoutFire
  \/ ReconnectTimerFire
  \/ UntrackedConnectFire
  \/ SocketOpen
  \/ SocketClose

SpecConserve == InitConserve /\ [][NextConserve]_vars

(***************************************************************************)
(* The backoff delays: no public call is made, the endpoints behave in any *)
(* way, and the delay of every backoff timer is recorded.                  *)
(***************************************************************************)
Factors == {1, 2, LargeFactor}

InitBackoff ==
  \E n \in 1..MaxUrls, a \in 0..MaxBackoff, f \in Factors :
    Start(connect([Constructed(n, [DefaultOptions EXCEPT
                                     !.maxReconnectAttempts = a,
                                     !.reconnectBackoffFactor = f],
                               [i \in 0..(n - 1) |-> "any"], 0)
                     EXCEPT !.reconnectDelay.track = TRUE], FALSE))

NextBackoff ==
  \/ ReturnFromClose
  \/ ConnectTimeoutFire
  \/ ReconnectTimerFire
  \/ UntrackedConnectFire
  \/ SocketOpen
  \/ SocketClose

SpecBackoff == InitBackoff /\ [][NextBackoff]_vars

(***************************************************************************)
(* Superseded sockets: the native sockets the controller dropped go on     *)
(* closing and may still deliver a message and their close event.  An      *)
(* event of a superseded socket runs a handler of the controller only if   *)
(* the controller's listeners are still on that socket.                    *)
(***************************************************************************)
InitSupersede ==
  \E n \in 1..MaxUrls, opts \in OptionSets :
    Start(connect([Constructed(n, opts, [i \in 0..(n - 1) |-> "any"], 0)
                     EXCEPT !.superseded.track = TRUE], FALSE))

\* Which superseded socket emits: one with or one without the listeners.
Emitters ==
  {b \in BOOLEAN : IF b THEN superseded.attached > 0
                         ELSE superseded.live > superseded.attached}

SupersededMessage ==
  /\ pc = "idle"
  /\ \E listening \in Emitters :
       Become(IF listening THEN handleMessage(Cur) ELSE Cur,
              "supersededMessage")

SupersededClose ==
  /\ pc = "idle"
  /\ \E listening \in Emitters :
       LET s == [Cur EXCEPT !.superseded.live = @ - 1,
                            !.superseded.attached =
                               IF listening THEN @ - 1 ELSE @]
       IN Become(IF listening THEN handleClose(s, 1006, "") ELSE s,
                 "supersededClose")

NextSupersede ==
  \/ Close
  \/ Destroy
  \/ ForceReconnect
  \/ ReturnFromClose
  \/ ConnectTimeoutFire
  \/ ReconnectTimerFire
  \/ UntrackedConnectFire
  \/ SocketOpen
  \/ SocketClose
  \/ SocketMessage
  \/ SupersededMessage
  \/ SupersededClose

SpecSupersede == InitSupersede /\ [][NextSupersede]_vars

(***************************************************************************)
(* Shorthands of the properties.                                           *)
(***************************************************************************)
\* The state a caller can observe or that decides the controller's future.
Controller ==
  << readyState, url, bufferedAmount, currentUrlIndex, socket, messageQueue,
     reconnectAttempts, reconnectTimeoutId, connectTimeoutId,
     heartbeatIntervalId, heartbeatTimeoutId, isDestroyed, shouldReconnect,
     closeRequest >>

NoTimerArmed ==
  /\ connectTimeoutId # "armed"
  /\ reconnectTimeoutId # "armed"
  /\ heartbeatIntervalId # "armed"
  /\ heartbeatTimeoutId # "armed"

Emitted(seq, t) == \E i \in DOMAIN seq : seq[i].t = t

\* Nothing is scheduled and no notification is outstanding.
Quiescent ==
  /\ pc = "idle"
  /\ connectTimeoutId # "armed"
  /\ reconnectTimeoutId # "armed"
  /\ untrackedConnects = 0
  /\ socket \notin {"connecting", "closing"}

HeartbeatReason == "Heartbeat response timeout"

(***************************************************************************)
(* C1.  When the heartbeat response-timeout closes an OPEN connection and  *)
(* the transport reports that close, reconnection is still permitted, so   *)
(* the handler goes on to invoke the reconnection policy.                  *)
(***************************************************************************)
C1_HeartbeatCloseReconnects ==
  (lastOp = "socketClose" /\ out = << Ev("close", 1000, HeartbeatReason) >>)
    => (shouldReconnect /\ ~isDestroyed)

(***************************************************************************)
(* C2.  With endpoints that never accept, the reconnect counter never      *)
(* exceeds maxReconnectAttempts, and when reconnection has been disabled   *)
(* the counter equals maxReconnectAttempts and exactly that many connect   *)
(* attempts were made by the backoff timer.                                *)
(***************************************************************************)
C2_ExactlyNBackoffAttempts ==
  /\ reconnectAttempts <= options.maxReconnectAttempts
  /\ ~shouldReconnect =>
       /\ reconnectAttempts = options.maxReconnectAttempts
       /\ backoffConnects = options.maxReconnectAttempts

(***************************************************************************)
(* C3.  With endpoints 0..k-1 failing and endpoint k accepting, the open   *)
(* event fires only at endpoint k with the counter at 0, no backoff        *)
(* attempt is consumed on the way, and the controller does not come to     *)
(* rest anywhere but OPEN at endpoint k.                                   *)
(***************************************************************************)
C3_FallbackReachesGoodEndpoint ==
  /\ Emitted(out, "open") =>
       (url = GoodUrl /\ currentUrlIndex = GoodUrl /\ reconnectAttempts = 0)
  /\ reconnectAttempts = 0
  /\ Quiescent => (readyState = OPEN /\ url = GoodUrl)

(***************************************************************************)
(* C4.  Once destroyed, readyState is CLOSED, none of the four timers is   *)
(* armed and there is no transport; and no later call, scheduled callback  *)
(* or notification changes the controller or emits anything.               *)
(***************************************************************************)
C4_DestroyIsTerminal ==
  [][ /\ isDestroyed' =>
           (readyState' = CLOSED /\ NoTimerArmed' /\ socket' = "null")
      /\ isDestroyed => (UNCHANGED Controller /\ out' = << >>) ]_vars

C4_Witness ==
  isDestroyed /\ lastOp \in {"untrackedConnect", "forceReconnect"}

(***************************************************************************)
(* C5.  close() while CONNECTING or OPEN disables auto-reconnect and moves *)
(* to CLOSING with the transport closing; in CLOSING the transport's close *)
(* report is outstanding; when it arrives readyState becomes CLOSED and    *)
(* this is the only close event of the connection; and as long as          *)
(* forceReconnect() is not called the reconnection policy is not invoked.  *)
(***************************************************************************)
C5_ExplicitClose ==
  [][ /\ (lastOp' = "close" /\ readyState \in {CONNECTING, OPEN}) =>
           (~shouldReconnect' /\ readyState' = CLOSING /\ socket' = "closing")
      /\ readyState' = CLOSING => socket' = "closing"
      /\ (lastOp' = "socketClose" /\ userClosed) =>
           /\ readyState' = CLOSED
           /\ Count(out', "close") = 1
           /\ closeCount' = 1
      /\ (userClosed /\ lastOp' # "forceReconnect") =>
           ~Emitted(out', "policy") ]_vars

C5_Witness ==
  /\ lastOp = "returnFromClose"
  /\ userClosed
  /\ readyState = CLOSED
  /\ closeCount = 1
  /\ ~isDestroyed

(***************************************************************************)
(* C6.  A connection attempt dispatches at most one close event and        *)
(* invokes the reconnection policy at most once.                           *)
(***************************************************************************)
C6_OneCloseOnePolicyPerFailure == closeCount <= 1 /\ policyCount <= 1

(***************************************************************************)
(* C7.  close() in CLOSING or CLOSED changes nothing and emits nothing; a  *)
(* connection closed by close() never has more than one close event, and   *)
(* has exactly one once it is CLOSED (unless destroy() cut it short).      *)
(***************************************************************************)
C7_CloseIsNoOpWhenClosing ==
  [][ /\ (lastOp' = "close" /\ readyState \in {CLOSING, CLOSED}) =>
           /\ UNCHANGED Controller
           /\ UNCHANGED untrackedConnects
           /\ out' = << >>
      /\ userClosed' => closeCount' <= 1
      /\ (userClosed' /\ readyState' = CLOSED /\ ~isDestroyed') =>
           closeCount' = 1 ]_vars

C7_Witness ==
  /\ lastOp = "close"
  /\ prev.readyState = CLOSING
  /\ readyState = CLOSING
  /\ userClosed

(***************************************************************************)
(* C8.  The reconnect counter is 0 whenever an open event is dispatched    *)
(* and whenever readyState becomes OPEN, and it decreases in no other      *)
(* step.                                                                   *)
(***************************************************************************)
C8_CounterResetOnlyOnOpen ==
  [][ /\ Emitted(out', "open") => reconnectAttempts' = 0
      /\ (readyState' = OPEN /\ readyState # OPEN) =>
           (reconnectAttempts' = 0 /\ Emitted(out', "open"))
      /\ reconnectAttempts' < reconnectAttempts =>
           (readyState # OPEN /\ readyState' = OPEN) ]_vars

C8_Witness ==
  /\ lastOp = "socketOpen"
  /\ prev.reconnectAttempts > 0
  /\ reconnectAttempts = 0

(***************************************************************************)
(* C9.  When readyState becomes OPEN, the queued messages are handed to    *)
(* the transport in queue order, all of them, before the open event is     *)
(* dispatched, and the queue is left empty; over the life of a controller  *)
(* the transport receives payloads in the order of their send() calls.     *)
(***************************************************************************)
TxOf(q) == [i \in 1..Len(q) |-> Ev("tx", q[i].id, q[i].data)]

Increasing(seq) == \A i, j \in DOMAIN seq : i < j => seq[i] < seq[j]

C9_FlushIsFifo ==
  [][ /\ (readyState # OPEN /\ readyState' = OPEN) =>
           /\ out' = TxOf(messageQueue) \o << Ev("open", 0, "") >>
           /\ messageQueue' = << >>
      /\ Increasing(txLog') ]_vars

C9_Witness ==
  /\ lastOp = "socketOpen"
  /\ Count(out, "tx") >= 2
  /\ out[Len(out)].t = "open"

(***************************************************************************)
(* C10.  After any sequence of push, shift and clear: length <= maxCount,  *)
(* byteSize <= maxBytes, and byteSize is the sum of the sizes of the       *)
(* items the queue contains.                                               *)
(***************************************************************************)
C10_QueueBounds ==
  /\ rbLength(rb) <= rb.maxCount
  /\ rbByteSize(rb) <= rb.maxBytes
  /\ rbByteSize(rb) = SumSizes(rbValues(rb))
  /\ Len(rbValues(rb)) = rbLength(rb)

C10_Witness ==
  /\ rbLast.op = "push"
  /\ rb.count = rb.maxCount
  /\ rb.count >= 2
  /\ rb.head > 0
  /\ rb.totalBytes = rb.maxBytes

(***************************************************************************)
(* The abstract queue of C11: an insertion-ordered sequence with FIFO      *)
(* eviction.                                                               *)
(***************************************************************************)
RECURSIVE AbsEvict(_, _, _, _)
AbsEvict(seq, item, maxCount, maxBytes) ==
  IF seq # << >> /\ (Len(seq) >= maxCount
                       \/ SumSizes(seq) + item.size > maxBytes)
    THEN AbsEvict(Tail(seq), item, maxCount, maxBytes)
    ELSE seq

AbsPush(seq, item, maxCount, maxBytes) ==
  IF item.size > maxBytes THEN seq
  ELSE Append(AbsEvict(seq, item, maxCount, maxBytes), item)

AbsShift(seq) == IF seq = << >> THEN seq ELSE Tail(seq)

AbsShifted(seq) == IF seq = << >> THEN Undefined ELSE Head(seq)

(***************************************************************************)
(* C11.  values() of the RingBufferQueue follows the abstract sequence     *)
(* step by step: a new queue is empty; after push it is the old contents   *)
(* with the oldest items dropped while count >= maxCount or bytes + size > *)
(* maxBytes and the item appended; shift removes and returns the head      *)
(* (undefined when empty); clear empties.                                  *)
(***************************************************************************)
C11_RefinesFifoSequence ==
  [][ /\ rbLast.op = "new" => rbValues(rb) = << >>
      /\ (rbLast'.op \in {"push", "pushThrew"} /\ ~rb'.spins) =>
           rbValues(rb') = AbsPush(rbValues(rb), rbLast'.item,
                                   rb.maxCount, rb.maxBytes)
      /\ rbLast'.op = "shift" =>
           /\ rbValues(rb') = AbsShift(rbValues(rb))
           /\ rbLast'.item = AbsShifted(rbValues(rb))
      /\ rbLast'.op = "clear" => rbValues(rb') = << >> ]_vars

\* maxCount = 2 after a third push: the ring has wrapped and the oldest
\* item was evicted.
C11_Witness ==
  /\ rbLast.op = "push"
  /\ rb.maxCount = 2
  /\ rb.head = 1
  /\ rb.tail = 1
  /\ rb.buffer[1] # rb.buffer[0]
  /\ rbValues(rb) = << rb.buffer[1], rb.buffer[0] >>
  /\ rbLast.item = rb.buffer[0]

(***************************************************************************)
(* C12.  A push of an item larger than maxBytes raises and leaves the      *)
(* queue as it was; and for every byte capacity B the caller configures,   *)
(* a send() of a payload larger than B queues nothing, so no queued        *)
(* message is ever larger than B.                                          *)
(***************************************************************************)
C12_OversizedPayloadRejected ==
  [][ /\ rbLast'.op = "pushThrew" => rb' = rb
      /\ (rbLast'.op = "push" /\ ~rb'.spins) =>
           rbLast'.item.size <= rb.maxBytes
      /\ \A B \in 1..MaxQueueBytes :
           \A i \in DOMAIN messageQueue' : messageQueue'[i].size <= B ]_vars

(***************************************************************************)
(* C13.  A send() while not OPEN and not destroyed enqueues its payload    *)
(* behind the queued ones, dropping from the front what no longer fits;    *)
(* and the queue never holds more than maxQueueSize messages, for every    *)
(* maxQueueSize >= 0.                                                      *)
(***************************************************************************)
LastN(seq, n) == SubSeq(seq, Len(seq) - Min(n, Len(seq)) + 1, Len(seq))

Queued(s) == [i \in DOMAIN s.messageQueue |-> s.messageQueue[i].id]

C13_QueueHoldsMostRecent ==
  [][ /\ (lastOp' = "send" /\ readyState # OPEN /\ ~isDestroyed) =>
           /\ Queued(Cur)' # << >>
           /\ Queued(Cur)'[Len(messageQueue')] = nextId'
           /\ Queued(Cur)' = LastN(Append(Queued(Cur), nextId'),
                                   Len(messageQueue'))
      /\ Len(messageQueue') <= options'.maxQueueSize ]_vars

(***************************************************************************)
(* C14.  For every byte capacity B the caller configures as maxQueueBytes: *)
(* when each queued payload fits in B on its own, bufferedAmount <= B      *)
(* (older messages were evicted to make room).                             *)
(***************************************************************************)
C14_BufferedWithinByteCap ==
  \A B \in 1..MaxQueueBytes :
    (\A i \in DOMAIN messageQueue : messageQueue[i].size <= B) =>
      bufferedAmount <= B

(***************************************************************************)
(* C15.  send() on a destroyed controller enqueues nothing, hands nothing  *)
(* to the transport and emits nothing: getQueuedMessageCount() and         *)
(* bufferedAmount are what they were before the call.                      *)
(***************************************************************************)
C15_SendAfterDestroyDiscarded ==
  [][ (lastOp' = "send" /\ isDestroyed) =>
        /\ getQueuedMessageCount(Cur)' = getQueuedMessageCount(Cur)
        /\ UNCHANGED << messageQueue, bufferedAmount, txLog >>
        /\ out' = << >>
        /\ isDestroyed' ]_vars

C15_Witness ==
  /\ lastOp = "send"
  /\ isDestroyed
  /\ nextId >= 2
  /\ prev.readyState = CLOSED
  /\ messageQueue = << >>

(***************************************************************************)
(* C16.  destroy() leaves the controller destroyed, CLOSED, with an empty  *)
(* queue, bufferedAmount 0 and no timer armed; a call on a destroyed       *)
(* controller changes nothing, so two calls in a row end where one does;   *)
(* and no step of or after destroy() dispatches a close event.             *)
(***************************************************************************)
C16_DestroyIdempotent ==
  [][ /\ lastOp' = "destroy" =>
           /\ isDestroyed'
           /\ readyState' = CLOSED
           /\ messageQueue' = << >>
           /\ bufferedAmount' = 0
           /\ NoTimerArmed'
           /\ isDestroyed => UNCHANGED Controller
           /\ destroy(destroy(Cur)) = destroy(Cur)
      /\ isDestroyed' => (~Emitted(out', "close") /\ closeCount' = closeCount)
    ]_vars

\* destroy() on a connection whose close event has already fired.
C16_Witness ==
  /\ lastOp = "destroy"
  /\ isDestroyed
  /\ prev.readyState = CLOSED
  /\ closeCount = 1
  /\ pc = "idle"

(***************************************************************************)
(* C17.  bufferedAmount is the sum of the byte sizes of the queued         *)
(* messages, where a text payload counts its encoded bytes (three for each *)
(* wide character, one for each ASCII character) and a binary payload its  *)
(* byte length.                                                            *)
(***************************************************************************)
ByteLength(kind) ==
  LET p == CHOOSE x \in Payloads : x.kind = kind
  IN IF kind = "wide" THEN 3 * p.units ELSE p.units

RECURSIVE SumBytes(_)
SumBytes(q) ==
  IF q = << >> THEN 0 ELSE ByteLength(Head(q).data) + SumBytes(Tail(q))

C17_BufferedAmountIsQueueBytes ==
  /\ bufferedAmount = SumBytes(messageQueue)
  /\ \A i \in DOMAIN messageQueue :
       messageQueue[i].size = ByteLength(messageQueue[i].data)

\* A full queue after an eviction, holding a wide text and a binary payload.
C17_Witness ==
  /\ lastOp = "send"
  /\ nextId = 3
  /\ Len(messageQueue) = 2
  /\ messageQueue[1].data = "wide"
  /\ messageQueue[2].data = "binary"
  /\ bufferedAmount = 5

(***************************************************************************)
(* C18.  Whenever readyState is OPEN the queue is empty and bufferedAmount *)
(* is 0; the open event is dispatched with readyState OPEN; and a send()   *)
(* made while OPEN hands exactly its payload to the transport and leaves   *)
(* the queue empty and bufferedAmount 0.                                   *)
(***************************************************************************)
C18_OpenMeansQueueEmpty ==
  /\ readyState = OPEN => (messageQueue = << >> /\ bufferedAmount = 0)
  /\ Emitted(out, "open") => readyState = OPEN
  /\ (lastOp = "send" /\ prev.readyState = OPEN) =>
       /\ \E p \in Payloads : out = << Ev("tx", nextId, p.kind) >>
       /\ txLog # << >> /\ txLog[Len(txLog)] = nextId
       /\ messageQueue = << >>
       /\ bufferedAmount = 0

\* A send() on a connection that opened with a message queued.
C18_Witness ==
  /\ lastOp = "send"
  /\ prev.readyState = OPEN
  /\ readyState = OPEN
  /\ nextId = 2
  /\ txLog = << 1, 2 >>

(***************************************************************************)
(* C19.  With heartbeat disabled, neither the heartbeat-interval timer nor *)
(* the heartbeat-timeout timer is ever created, whatever has happened      *)
(* (inbound messages included).                                            *)
(***************************************************************************)
C19_NoHeartbeatTimersWhenDisabled ==
  ~options.enableHeartbeat =>
    (heartbeatIntervalId = "null" /\ heartbeatTimeoutId = "null")

\* An inbound message on an open connection with heartbeat disabled.
C19_Witness ==
  /\ ~options.enableHeartbeat
  /\ lastOp = "socketMessage"
  /\ readyState = OPEN
  /\ Emitted(out, "message")
  /\ heartbeatTimeoutId = "null"

(***************************************************************************)
(* C20.  A heartbeat probe reaches the transport only from the interval    *)
(* callback, and only when readyState was OPEN and the controller not      *)
(* destroyed as the callback ran; and no probe is ever in the outbound     *)
(* queue.                                                                  *)
(***************************************************************************)
ProbeSent(seq) == \E i \in DOMAIN seq : seq[i].t = "tx" /\ seq[i].v = 0

C20_ProbeOnlyWhileOpen ==
  /\ ProbeSent(out) =>
       /\ lastOp = "heartbeatInterval"
       /\ prev.readyState = OPEN
       /\ ~isDestroyed
       /\ options.enableHeartbeat
  /\ \A i \in DOMAIN messageQueue : messageQueue[i].id # 0

C20_Witness ==
  /\ lastOp = "heartbeatInterval"
  /\ out = << Ev("tx", 0, "ascii") >>
  /\ readyState = OPEN
  /\ heartbeatTimeoutId = "armed"

(***************************************************************************)
(* C21.  A heartbeat timer (interval or response-timeout) is pending only  *)
(* while heartbeat is enabled, readyState is OPEN and the controller is    *)
(* not destroyed: none is armed once a close has been initiated.           *)
(***************************************************************************)
C21_HeartbeatTimersOnlyWhileOpen ==
  (heartbeatIntervalId = "armed" \/ heartbeatTimeoutId = "armed") =>
    (options.enableHeartbeat /\ readyState = OPEN /\ ~isDestroyed)

(***************************************************************************)
(* C22.  With heartbeat enabled, an inbound message received while OPEN    *)
(* re-arms the response-timeout (a full heartbeatTimeout from now); and on *)
(* a connection whose inbound messages are less than heartbeatTimeout      *)
(* apart the response-timeout never fires while OPEN, so the heartbeat     *)
(* monitor never closes it.                                                *)
(***************************************************************************)
C22_TrafficKeepsConnectionAlive ==
  /\ (lastOp = "socketMessage" /\ prev.readyState = OPEN) =>
       (heartbeatTimeoutId = "armed" /\ clock.hb = 0)
  /\ lastOp = "heartbeatTimeout" => prev.readyState # OPEN
  /\ ~Emitted(out, "close") \/ out[1].r # HeartbeatReason

\* A probe is outstanding, time has passed, and a message re-armed the timer.
C22_Witness ==
  /\ lastOp = "socketMessage"
  /\ readyState = OPEN
  /\ heartbeatIntervalId = "armed"
  /\ heartbeatTimeoutId = "armed"
  /\ clock = [hb |-> 0, rx |-> 0, iv |-> 0]
  /\ prev.readyState = OPEN
  /\ closeCount = 0
  /\ nextId = 1

(***************************************************************************)
(* C23.  The connect-timeout is pending only while CONNECTING, with the    *)
(* transport still connecting.  When it fires the transport is             *)
(* force-closed, readyState becomes CLOSED and a close event with code     *)
(* 1006 and reason "Connection timeout" is dispatched; and when the        *)
(* listeners return with reconnection permitted, the reconnection policy   *)
(* is invoked.  It never fires on a connection that has reached OPEN.      *)
(***************************************************************************)
TimeoutReason == "Connection timeout"

C23_ConnectTimeout ==
  [][ /\ connectTimeoutId' = "armed" =>
           (readyState' = CONNECTING /\ socket' = "connecting")
      /\ lastOp' = "connectTimeout" =>
           /\ readyState = CONNECTING
           /\ readyState' = CLOSED
           /\ socket' = "closing" /\ closeRequest' = "abort"
           /\ out' = << Ev("close", 1006, TimeoutReason) >>
           /\ pc' = "closeCb"
      /\ (lastOp = "connectTimeout" /\ lastOp' = "returnFromClose"
            /\ shouldReconnect /\ ~isDestroyed) =>
           out' = << Ev("policy", 0, "") >> ]_vars

\* The policy has run after a connect-timeout.
C23_Witness ==
  /\ lastOp = "returnFromClose"
  /\ out = << Ev("policy", 0, "") >>
  /\ socket = "closing"
  /\ closeRequest = "abort"
  /\ closeCount = 1
  /\ readyState = CLOSED

(***************************************************************************)
(* C24.  When creating the transport raises (in the constructor, in a      *)
(* timer's connect or in forceReconnect), the controller ends CLOSED with  *)
(* no transport and no connect-timeout, exactly one close event with code  *)
(* 1006 is dispatched, and the reconnection policy follows it as it        *)
(* follows a transport close: at once when the failure happened inside the *)
(* constructor or inside a listener's own call, else when the listeners    *)
(* return with reconnection permitted.                                     *)
(***************************************************************************)
ConstructFailure == Ev("close", 1006, "construct")

C24_ConstructFailureIsClose ==
  [][ /\ (lastOp = "new" /\ Emitted(out, "close")) =>
           /\ readyState = CLOSED /\ socket = "null"
           /\ out = << ConstructFailure, Ev("policy", 0, "") >>
      /\ (\E i \in DOMAIN out' : out'[i] = ConstructFailure) =>
           /\ readyState' = CLOSED
           /\ socket' = "null"
           /\ connectTimeoutId' # "armed"
           /\ IF pc = "idle"
                THEN pc' = "closeCb" /\ out' = << ConstructFailure >>
                ELSE out' = << ConstructFailure, Ev("policy", 0, "") >>
      /\ (out = << ConstructFailure >> /\ lastOp' = "returnFromClose"
            /\ shouldReconnect /\ ~isDestroyed) =>
           out' = << Ev("policy", 0, "") >> ]_vars

\* The backoff timer's connect raised, the listeners returned, the policy ran.
C24_Witness ==
  /\ lastOp = "returnFromClose"
  /\ out = << Ev("policy", 0, "") >>
  /\ socket = "null"
  /\ readyState = CLOSED
  /\ closeCount = 1
  /\ backoffConnects >= 1
  /\ ~shouldReconnect

(***************************************************************************)
(* C25.  forceReconnect() while OPEN starts a clean close (code 1000) with *)
(* reconnection enabled; and when the transport has reported that close    *)
(* and the listeners have returned, a new connect attempt is scheduled,    *)
(* for every maxReconnectAttempts >= 0 and every number of endpoints.      *)
(***************************************************************************)
ForceReason == "Force reconnect"

C25_ForceReconnectReconnects ==
  [][ /\ (lastOp' = "forceReconnect" /\ readyState = OPEN /\ ~isDestroyed) =>
           /\ readyState' = CLOSING
           /\ closeRequest' = ForceReason
           /\ shouldReconnect'
      /\ (lastOp = "socketClose" /\ out = << Ev("close", 1000, ForceReason) >>
            /\ lastOp' = "returnFromClose") =>
           \/ reconnectTimeoutId' = "armed"
           \/ untrackedConnects' > untrackedConnects ]_vars

(***************************************************************************)
(* C26, as claimed.  After forceReconnect() on a CLOSED controller that is *)
(* not destroyed, reconnection is enabled, readyState is CONNECTING and no *)
(* backoff reconnect timer is pending.                                     *)
(***************************************************************************)
C26_ForceReconnectAlwaysConnecting ==
  (lastOp = "forceReconnect" /\ prev.readyState = CLOSED /\ ~isDestroyed) =>
    /\ shouldReconnect
    /\ readyState = CONNECTING
    /\ reconnectTimeoutId # "armed"

(***************************************************************************)
(* C26, amended.  After forceReconnect() on a CLOSED controller that is    *)
(* not destroyed: if creating the transport raised, readyState is CLOSED   *)
(* with no transport and the close event 1006 was dispatched; otherwise    *)
(* reconnection is enabled, readyState is CONNECTING with a new transport  *)
(* and its connect-timeout, nothing was dispatched and the backoff timer   *)
(* held in reconnectTimeoutId is cancelled.                                *)
(***************************************************************************)
C26_ForceReconnectWhenClosed ==
  (lastOp = "forceReconnect" /\ prev.readyState = CLOSED /\ ~isDestroyed) =>
    IF out # << >>
      THEN /\ out[1] = ConstructFailure
           /\ readyState = CLOSED
           /\ socket = "null"
      ELSE /\ shouldReconnect
           /\ readyState = CONNECTING
           /\ socket = "connecting"
           /\ connectTimeoutId = "armed"
           /\ reconnectTimeoutId = "null"

\* forceReconnect() after the attempt budget was used up.
C26_Witness ==
  /\ lastOp = "forceReconnect"
  /\ prev.readyState = CLOSED
  /\ readyState = CONNECTING
  /\ shouldReconnect
  /\ prev.reconnectAttempts = options.maxReconnectAttempts
  /\ options.maxReconnectAttempts > 0
  /\ pc = "idle"

(***************************************************************************)
(* C27.  forceReconnect() while readyState is CLOSING changes nothing and  *)
(* emits nothing (so the close in progress ends CLOSED with reconnection   *)
(* as close() left it).                                                    *)
(***************************************************************************)
C27_ForceReconnectIgnoredWhenClosing ==
  [][ (lastOp' = "forceReconnect" /\ readyState = CLOSING) =>
        (UNCHANGED Controller /\ out' = << >>) ]_vars


\* C28: the controller's listeners are on no socket but the current one, and
\* an event of a superseded socket changes nothing of the controller and
\* dispatches nothing.
C28_SupersededSocketIsInert ==
  [][/\ superseded'.attached = 0
     /\ lastOp' \in {"supersededMessage", "supersededClose"} =>
          (UNCHANGED Controller /\ out' = << >>)]_vars

\* A socket that was replaced while it was open has reported its close, and
\* the replacement is still connecting.
C28_Witness ==
  /\ lastOp = "supersededClose"
  /\ prev.readyState = CONNECTING
  /\ readyState = CONNECTING
  /\ socket = "connecting"
  /\ superseded.live = 0


\* C29: readyState changes only along CONNECTING -> OPEN -> CLOSING ->
\* CLOSED, CONNECTING -> CLOSED, or OPEN -> CLOSING -> CLOSED: no step takes
\* it between two distinct states otherwise.
C29_ReadyStateTransitions ==
  \/ readyState = prev.readyState
  \/ << prev.readyState, readyState >> \in
       { << CONNECTING, OPEN >>, << OPEN, CLOSING >>, << CLOSING, CLOSED >>,
         << CONNECTING, CLOSED >> }


\* C30: the endpoint index stays within the list and the url property is the
\* endpoint at the index; the index wraps to 0 only after the transport of
\* the last endpoint has failed, and an open leaves the index at the endpoint
\* whose transport opened.
C30_EndpointIndex ==
  [][/\ currentUrlIndex' \in 0..(urlsLen' - 1)
     /\ (url = getCurrentUrl(Cur))'
     /\ (currentUrlIndex' = 0 /\ currentUrlIndex # 0) =>
          (currentUrlIndex = urlsLen - 1 /\ socketUrl = urlsLen - 1)
     /\ lastOp' = "socketOpen" => currentUrlIndex' = socketUrl]_vars


\* C31: endpoints are tried in list order without skipping: a connect attempt
\* targets the endpoint after the one tried before it (the first one after
\* the last), and a backoff attempt is consumed only when the endpoint that
\* has just been tried and failed is the last of the list.
C31_FallbackInListOrder ==
  [][/\ lastOp' \in {"reconnectTimer", "untrackedConnect"} =>
          socketUrl' = (socketUrl + 1) % urlsLen
     /\ reconnectAttempts' > reconnectAttempts =>
          socketUrl = urlsLen - 1]_vars


\* Reconnection was switched off by the policy, not by close() or destroy().
Exhausted == ~shouldReconnect /\ ~userClosed /\ ~isDestroyed

\* C32: once the backoff budget is exhausted, the controller stays CLOSED
\* with no reconnect callback pending (until forceReconnect() is called,
\* which re-enables reconnection).
C32_ExhaustedStaysClosed ==
  Exhausted =>
    /\ readyState = CLOSED
    /\ reconnectTimeoutId # "armed"
    /\ untrackedConnects = 0


\* C33: the backoff timer armed when k attempts are used runs with a delay
\* of reconnectBackoffFactor^k seconds, and the delays of consecutive backoff
\* attempts since the last open never decrease.
C33_BackoffDelays ==
  [][reconnectAttempts' = reconnectAttempts + 1 =>
       /\ reconnectDelay'.ms % 1000 = 0
       /\ reconnectDelay'.ms \div 1000 =
            Pow(options.reconnectBackoffFactor, reconnectAttempts)
       /\ reconnectAttempts > 0 =>
            reconnectDelay'.ms >= reconnectDelay.ms]_vars


\* C34: a connection whose peer stays silent does not stay OPEN for more than
\* heartbeatInterval + heartbeatTimeout after the open.
C34_SilentPeerIsClosed ==
  readyState = OPEN =>
    clock.rx <= options.heartbeatInterval + options.heartbeatTimeout


\* C35: the response-timeout closes the connection only if the timer that
\* fires was armed by a probe (at the last firing of the interval) and no
\* message has arrived since.
C35_TimeoutOnlyAfterUnansweredProbe ==
  [][(lastOp' = "heartbeatTimeout" /\ readyState = OPEN
        /\ readyState' = CLOSING) =>
       (clock.hb = clock.iv /\ clock.rx >= clock.hb)]_vars


\* C36: no step takes readyState from OPEN directly to CONNECTING: an open
\* transport is never replaced without a close event in between.
C36_OpenIsNotReplaced ==
  ~(prev.readyState = OPEN /\ readyState = CONNECTING)


\* C37: after a call of close(), whatever state it was made in, the next
\* step starts no connect attempt unless it is forceReconnect().
C37_NoConnectAfterClose ==
  [][(lastOp = "close" /\ lastOp' # "forceReconnect") =>
       ~(readyState # CONNECTING /\ readyState' = CONNECTING)]_vars


\* Reconnect callbacks that are pending: the backoff timer and the callbacks
\* no handle refers to.
PendingReconnects ==
  (IF reconnectTimeoutId = "armed" THEN 1 ELSE 0) + untrackedConnects

\* C38: at most one reconnect callback is pending, and none while the
\* controller is CONNECTING or OPEN.
C38_OnePendingReconnect ==
  /\ PendingReconnects <= 1
  /\ readyState \in {CONNECTING, OPEN} => PendingReconnects = 0


(***************************************************************************)
(* C39: message conservation.  A payload is handed to the transport at     *)
(* most once and is never both sent and queued; a payload passed to send() *)
(* on a controller that is not destroyed is sent or queued; a payload      *)
(* leaves the queue only by being sent, by being the oldest one when a     *)
(* send() finds the queue full, or by clearMessageQueue() or destroy();    *)
(* and only a queued or a new payload is sent.                             *)
(***************************************************************************)
QueueIds == {messageQueue[i].id : i \in DOMAIN messageQueue}

SentIds == {txLog[i] : i \in DOMAIN txLog}

C39_MessageConservation ==
  [][/\ Cardinality(SentIds') = Len(txLog')
     /\ Cardinality(QueueIds') = Len(messageQueue')
     /\ SentIds' \cap QueueIds' = {}
     /\ SentIds \subseteq SentIds'
     /\ (nextId' = nextId + 1 /\ ~isDestroyed) =>
          nextId' \in SentIds' \cup QueueIds'
     /\ \A id \in QueueIds \ QueueIds' :
          \/ id \in SentIds'
          \/ lastOp' \in {"clearMessageQueue", "destroy"}
          \/ /\ lastOp' = "send"
             /\ Len(messageQueue) >= options.maxQueueSize
             /\ id = Head(messageQueue).id
     /\ SentIds' \ SentIds \subseteq QueueIds \cup {nextId'}]_vars

\* Two payloads were passed to send() before any open: the first was evicted
\* and the second was flushed when a fallback endpoint opened.
C39_Witness ==
  /\ lastOp = "socketOpen"
  /\ socketUrl > 0
  /\ nextId = 2
  /\ txLog = << 2 >>
  /\ messageQueue = << >>


\* C40: push terminates: its eviction loop never runs on an empty queue with
\* its condition still true.
C40_PushTerminates == ~rb.spins

=============================================================================
